---- MODULE Spec2Model ----
(***************************************************************************)
(* Model of alinea.astk TimeControl.py (Python 2): the step bundles, the   *)
(* fixed-delay generator, the restartable schedulers TimeControl and       *)
(* Timing, and the multi-stream TimeControler.                             *)
(*                                                                         *)
(* heap    : the live objects, addressed by their index.                   *)
(* handles : the references the driving script holds.                      *)
(* trace   : for each object, the items its next() returned and the first  *)
(*           exception it raised, since the object was made or restarted.  *)
(* last    : the operation the script executed last and its outcome.       *)
(***************************************************************************)
EXTENDS Integers, Sequences, FiniteSets, TLC

VARIABLES heap, handles, trace, last

vars == <<heap, handles, trace, last>>

(***************************************************************************)
(* Bounds of the explored inputs.                                          *)
(***************************************************************************)
MaxSteps == 3
MaxDelay == 2
MaxHandles == 3

(***************************************************************************)
(* Python values: None and the integers are kept apart by a tag.           *)
(***************************************************************************)
None == [t |-> "None", v |-> 0]

PyInt(n) == [t |-> "int", v |-> n]

IsInt(x) == x.t = "int"

\* Python's i % d for a non-zero d: the result takes the sign of d.
PyMod(i, d) == IF d > 0 THEN i % d ELSE -((-i) % (-d))

\* Outcome of a call that returned normally or raised.
Ret(val, st) == [exc |-> "none", val |-> val, st |-> st]

Raise(e, st) == [exc |-> e, val |-> None, st |-> st]

(***************************************************************************)
(* TimeControlSet: the bundle is the dictionary of its keyword arguments.  *)
(***************************************************************************)
TimeControlSet(kwd) == kwd

(***************************************************************************)
(* Iterators.  A generator expression evaluates its outermost iterable,    *)
(* range(steps), when it is created and everything else on each next();    *)
(* a generator that raised is finished.  A list iterator walks seq.        *)
(***************************************************************************)
GenExpr(delay, n) ==
  [kind |-> "genexpr", delay |-> delay, n |-> n, i |-> 0, done |-> FALSE, seq |-> <<>>]

ListIter(seq) ==
  [kind |-> "listiter", delay |-> None, n |-> Len(seq), i |-> 0, done |-> FALSE, seq |-> seq]

\* range(steps): TypeError unless steps is an integer; empty when steps <= 0.
range(steps) ==
  IF ~IsInt(steps) THEN Raise("TypeError", 0)
  ELSE Ret(IF steps.v > 0 THEN steps.v ELSE 0, 0)

\* simple_delay_element with the test of i % delay inverted.
simple_delay_element_Inverted(delay, i) ==
  IF ~IsInt(delay) THEN Raise("TypeError", 0)
  ELSE IF delay.v = 0 THEN Raise("ZeroDivisionError", 0)
  ELSE IF PyMod(i, delay.v) # 0 THEN Ret(TimeControlSet([dt |-> delay.v]), 0)
  ELSE Ret(TimeControlSet([dt |-> 0]), 0)

\* The element the generator expression of simple_delay_timing computes for i.
simple_delay_element(delay, i) ==
  IF ~IsInt(delay) THEN Raise("TypeError", 0)
  ELSE IF delay.v = 0 THEN Raise("ZeroDivisionError", 0)
  ELSE IF PyMod(i, delay.v) = 0 THEN Ret(TimeControlSet([dt |-> delay.v]), 0)
  ELSE Ret(TimeControlSet([dt |-> 0]), 0)

simple_delay_timing(delay, steps) ==
  LET r == range(steps)
  IN  IF r.exc # "none" THEN Raise(r.exc, 0)
      ELSE Ret(GenExpr(delay, r.val), 0)

\* it.next(): st is the iterator afterwards.
iter_next(it) ==
  IF it.done \/ it.i >= it.n THEN Raise("StopIteration", [it EXCEPT !.done = TRUE])
  ELSE IF it.kind = "listiter" THEN Ret(it.seq[it.i + 1], [it EXCEPT !.i = it.i + 1])
  ELSE LET e == simple_delay_element(it.delay, it.i)
       IN  IF e.exc # "none" THEN Raise(e.exc, [it EXCEPT !.done = TRUE])
           ELSE Ret(e.val, [it EXCEPT !.i = it.i + 1])

(***************************************************************************)
(* The simulation model handed to TimeControl is external.  Three kinds    *)
(* are explored: no model, a model whose timing raises, and a model whose  *)
(* timing returns its own schedule, paced by the weather it is given.      *)
(***************************************************************************)
Models == {"None", "raises", "paced"}

PacedSchedule(delay, steps, weather, start_date) ==
  IF weather = "None" THEN << [dt |-> 1, paced |-> start_date] >>
  ELSE << [dt |-> 2, paced |-> start_date], [dt |-> 1, paced |-> start_date] >>

model_timing(model, delay, steps, weather, start_date) ==
  IF model = "paced" THEN Ret(ListIter(PacedSchedule(delay, steps, weather, start_date)), 0)
  ELSE IF model = "None" THEN Raise("AttributeError", 0)
  ELSE Raise("RuntimeError", 0)

(***************************************************************************)
(* TimeControl                                                             *)
(***************************************************************************)
\* TimeControl_timing going straight to the default schedule when a supplied
\* model fails.
TimeControl_timing_SkipFallback(delay, steps, model, weather, start_date) ==
  LET m == model_timing(model, delay, steps, weather, start_date)
      f == simple_delay_timing(delay, steps)
      d == simple_delay_timing(PyInt(1), PyInt(1))
  IN  IF m.exc = "none" THEN [exc |-> "none", val |-> m.val, diag |-> FALSE]
      ELSE IF f.exc = "none" /\ model = "None"
      THEN [exc |-> "none", val |-> f.val, diag |-> FALSE]
      ELSE [exc |-> d.exc, val |-> d.val, diag |-> model # "None"]

\* TimeControl_timing without the inner try: the fallback's exception escapes.
TimeControl_timing_Unguarded(delay, steps, model, weather, start_date) ==
  LET m == model_timing(model, delay, steps, weather, start_date)
      f == simple_delay_timing(delay, steps)
  IN  IF m.exc = "none" THEN [exc |-> "none", val |-> m.val, diag |-> FALSE]
      ELSE [exc |-> f.exc, val |-> f.val, diag |-> model # "None"]

\* The step generator chosen by the constructor; diag tells whether the
\* warning was printed.
TimeControl_timing(delay, steps, model, weather, start_date) ==
  LET m == model_timing(model, delay, steps, weather, start_date)
      f == simple_delay_timing(delay, steps)
      d == simple_delay_timing(PyInt(1), PyInt(1))
  IN  IF m.exc = "none" THEN [exc |-> "none", val |-> m.val, diag |-> FALSE]
      ELSE IF f.exc = "none" THEN [exc |-> "none", val |-> f.val, diag |-> model # "None"]
      ELSE [exc |-> d.exc, val |-> d.val, diag |-> model # "None"]

TimeControl__init__(delay, steps, model, weather, start_date) ==
  LET g == TimeControl_timing(delay, steps, model, weather, start_date)
  IN  [exc |-> g.exc, diag |-> g.diag,
       val |-> [cls |-> "TimeControl", delay |-> delay, steps |-> steps, model |-> model,
                weather |-> weather, start_date |-> start_date, _timing |-> g.val]]

\* self._timing.next()
TimeControl_next(self) ==
  LET r == iter_next(self._timing)
  IN  [exc |-> r.exc, val |-> r.val, st |-> [self EXCEPT !._timing = r.st]]

\* TimeControl__iter__ handing out the scheduler as it stands, half consumed.
TimeControl__iter__Resume(self) ==
  [exc |-> "none", diag |-> FALSE, val |-> self]

\* __iter__ builds a new TimeControl from the stored arguments.
TimeControl__iter__(self) ==
  TimeControl__init__(self.delay, self.steps, self.model, self.weather, self.start_date)

(***************************************************************************)
(* The driving script.                                                     *)
(***************************************************************************)
\* A reference to heap[o], obtained by a constructor called with args (s = 0)
\* or by iter() on handle s.
Handle(o, s, args) == [obj |-> o, src |-> s, args |-> args]

NoTrace == [out |-> <<>>, end |-> "none"]

NoCall == [op |-> "none", h |-> 0, args |-> <<>>, exc |-> "none", diag |-> FALSE]

Call(op, h, args, exc, diag) ==
  [op |-> op, h |-> h, args |-> args, exc |-> exc, diag |-> diag]

\* The trace after a next() call that ended as r.
Advanced(tr, r) ==
  IF r.exc = "none" THEN [tr EXCEPT !.out = Append(tr.out, r.val)]
  ELSE IF tr.end = "none" THEN [tr EXCEPT !.end = r.exc]
  ELSE tr

ObjOf(h) == heap[handles[h].obj]

TraceOf(h) == trace[handles[h].obj]

Delays == {None} \cup {PyInt(n) : n \in -2 .. MaxDelay}

StepCounts == {None} \cup {PyInt(n) : n \in -1 .. MaxSteps}

Weathers == {<<"None", "None">>, <<"w1", "d0">>}

Init ==
  /\ heap = <<>>
  /\ handles = <<>>
  /\ trace = <<>>
  /\ last = NoCall

\* tc = TimeControl(delay, steps, model, weather, start_date)
NewTimeControl ==
  /\ heap = <<>>
  /\ \E delay \in Delays, steps \in StepCounts, model \in Models, w \in Weathers :
       LET r == TimeControl__init__(delay, steps, model, w[1], w[2])
       IN  /\ last' = Call("TimeControl", 0, <<delay, steps, model, w[1], w[2]>>, r.exc, r.diag)
           /\ IF r.exc = "none"
              THEN /\ heap' = <<r.val>>
                   /\ handles' = <<Handle(1, 0, <<delay, steps, model, w[1], w[2]>>)>>
                   /\ trace' = <<NoTrace>>
              ELSE UNCHANGED <<heap, handles, trace>>

\* it = iter(handles[h]) on a TimeControl
IterTimeControl(h) ==
  /\ ObjOf(h).cls = "TimeControl"
  /\ Len(handles) < MaxHandles
  /\ LET r == TimeControl__iter__(ObjOf(h))
     IN  /\ last' = Call("TimeControl.__iter__", h, <<>>, r.exc, r.diag)
         /\ IF r.exc = "none"
            THEN /\ heap' = Append(heap, r.val)
                 /\ handles' = Append(handles, Handle(Len(heap) + 1, h, handles[h].args))
                 /\ trace' = Append(trace, NoTrace)
            ELSE UNCHANGED <<heap, handles, trace>>

\* handles[h].next() on a TimeControl
NextTimeControl(h) ==
  /\ ObjOf(h).cls = "TimeControl"
  /\ LET r == TimeControl_next(ObjOf(h))
     IN  /\ heap' = [heap EXCEPT ![handles[h].obj] = r.st]
         /\ trace' = [trace EXCEPT ![handles[h].obj] = Advanced(@, r)]
         /\ last' = Call("TimeControl.next", h, <<>>, r.exc, FALSE)
         /\ UNCHANGED handles

StepTimeControl ==
  \/ NewTimeControl
  \/ \E h \in DOMAIN handles : IterTimeControl(h)
  \/ \E h \in DOMAIN handles : NextTimeControl(h)

SpecTimeControl == Init /\ [][StepTimeControl]_vars

(***************************************************************************)
(* A script that calls simple_delay_timing itself and walks the generator. *)
(***************************************************************************)
MaxFnDelay == 3
MaxFnSteps == 9

FnDelays == {None} \cup {PyInt(n) : n \in -1 .. MaxFnDelay}

FnStepCounts == {None} \cup {PyInt(n) : n \in 0 .. MaxFnSteps}

\* g = simple_delay_timing(delay, steps)
NewSimpleDelay ==
  /\ heap = <<>>
  /\ \E delay \in FnDelays, steps \in FnStepCounts :
       LET r == simple_delay_timing(delay, steps)
       IN  /\ last' = Call("simple_delay_timing", 0, <<delay, steps>>, r.exc, FALSE)
           /\ IF r.exc = "none"
              THEN /\ heap' = << [cls |-> "generator", _timing |-> r.val] >>
                   /\ handles' = <<Handle(1, 0, <<delay, steps>>)>>
                   /\ trace' = <<NoTrace>>
              ELSE UNCHANGED <<heap, handles, trace>>

\* g.next()
NextSimpleDelay(h) ==
  /\ ObjOf(h).cls = "generator"
  /\ LET r == iter_next(ObjOf(h)._timing)
     IN  /\ heap' = [heap EXCEPT ![handles[h].obj]._timing = r.st]
         /\ trace' = [trace EXCEPT ![handles[h].obj] = Advanced(@, r)]
         /\ last' = Call("generator.next", h, <<>>, r.exc, FALSE)
         /\ UNCHANGED handles

StepSimpleDelay ==
  \/ NewSimpleDelay
  \/ \E h \in DOMAIN handles : NextSimpleDelay(h)

SpecSimpleDelay == Init /\ [][StepSimpleDelay]_vars

(***************************************************************************)
(* TimingElement, delay_to_timing and Timing.  A duration is a number of   *)
(* 1/Resolution ticks, so that int() has something to truncate; payloads   *)
(* are the Python values True, False, None and an event datum.             *)
(***************************************************************************)
Resolution == 2
MaxDur == 2
MaxBlocks == 2

PyList(s) == [t |-> "list", v |-> s]

IsNone(x) == x.t = "None"

Min(a, b) == IF a <= b THEN a ELSE b

\* int(d): the whole ticks of a duration, truncated towards zero.
int(d) == IF d >= 0 THEN d \div Resolution ELSE -((-d) \div Resolution)

TimingElement(data) == [data |-> data]

\* TimingElement.__nonzero__ testing the truth of the payload instead of its
\* identity with False.
TimingElement__nonzero__Truthy(self) == self.data \notin {"False", "None", "0", "[]"}

\* TimingElement.__nonzero__
TimingElement__nonzero__(self) == self.data # "False"

\* [first if i == 0 else False for i in range(int(d))]
Block(d, first) == [i \in 1 .. int(d) |-> IF i = 1 THEN first ELSE "False"]

RECURSIVE Concat(_, _)
\* x + y over the lists timing[k .. ], from the left.
Concat(timing, k) ==
  IF k > Len(timing) THEN <<>> ELSE timing[k] \o Concat(timing, k + 1)

\* reduce(lambda x, y: x + y, timing), which has no initial value.
reduce(timing) ==
  IF timing = <<>> THEN Raise("TypeError", 0) ELSE Ret(Concat(timing, 1), 0)

delay_to_timing(delays, datas) ==
  LET timing == IF ~IsNone(datas)
                THEN [k \in 1 .. Min(Len(delays), Len(datas.v)) |-> Block(delays[k], datas.v[k])]
                ELSE [k \in 1 .. Len(delays) |-> Block(delays[k], "True")]
  IN  reduce(timing)

Timing__init__(delays, datas) ==
  LET r == delay_to_timing(delays, datas)
  IN  IF r.exc # "none" THEN [exc |-> r.exc, diag |-> FALSE, val |-> None]
      ELSE [exc |-> "none", diag |-> FALSE,
            val |-> [cls |-> "Timing", delays |-> delays, datas |-> datas,
                     _timing |-> ListIter([i \in 1 .. Len(r.val) |-> TimingElement(r.val[i])])]]

\* Timing__iter__ handing out the Timing as it stands, half consumed.
Timing__iter__Resume(self) ==
  [exc |-> "none", diag |-> FALSE, val |-> self]

\* __iter__ builds a new Timing from the stored delays and datas.
Timing__iter__(self) == Timing__init__(self.delays, self.datas)

\* self._timing.next()
Timing_next(self) ==
  LET r == iter_next(self._timing)
  IN  [exc |-> r.exc, val |-> r.val, st |-> [self EXCEPT !._timing = r.st]]

Durations == 1 .. MaxDur * Resolution

Payloads == {"False", "w1"}

SeqsUpTo(S, n) == UNION {[1 .. k -> S] : k \in 0 .. n}

DelayLists == SeqsUpTo(Durations, MaxBlocks)

\* No datas, or one payload per delay.
DataLists(delays) == {None} \cup {PyList(d) : d \in [1 .. Len(delays) -> Payloads]}

\* t = Timing(delays, datas)
NewTiming ==
  /\ heap = <<>>
  /\ \E delays \in DelayLists : \E datas \in DataLists(delays) :
       LET r == Timing__init__(delays, datas)
       IN  /\ last' = Call("Timing", 0, <<delays, datas>>, r.exc, FALSE)
           /\ IF r.exc = "none"
              THEN /\ heap' = <<r.val>>
                   /\ handles' = <<Handle(1, 0, <<delays, datas>>)>>
                   /\ trace' = <<NoTrace>>
              ELSE UNCHANGED <<heap, handles, trace>>

\* it = iter(handles[h]) on a Timing
IterTiming(h) ==
  /\ ObjOf(h).cls = "Timing"
  /\ Len(handles) < MaxHandles
  /\ LET r == Timing__iter__(ObjOf(h))
     IN  /\ last' = Call("Timing.__iter__", h, <<>>, r.exc, FALSE)
         /\ IF r.exc = "none"
            THEN /\ heap' = Append(heap, r.val)
                 /\ handles' = Append(handles, Handle(Len(heap) + 1, h, handles[h].args))
                 /\ trace' = Append(trace, NoTrace)
            ELSE UNCHANGED <<heap, handles, trace>>

\* handles[h].next() on a Timing
NextTiming(h) ==
  /\ ObjOf(h).cls = "Timing"
  /\ LET r == Timing_next(ObjOf(h))
     IN  /\ heap' = [heap EXCEPT ![handles[h].obj] = r.st]
         /\ trace' = [trace EXCEPT ![handles[h].obj] = Advanced(@, r)]
         /\ last' = Call("Timing.next", h, <<>>, r.exc, FALSE)
         /\ UNCHANGED handles

\* l = delay_to_timing(delays, datas)
CallDelayToTiming ==
  /\ heap = <<>>
  /\ \E delays \in DelayLists : \E datas \in DataLists(delays) :
       LET r == delay_to_timing(delays, datas)
       IN  /\ last' = Call("delay_to_timing", 0, <<delays, datas>>, r.exc, FALSE)
           /\ IF r.exc = "none"
              THEN /\ heap' = << [cls |-> "list", value |-> r.val] >>
                   /\ handles' = <<Handle(1, 0, <<delays, datas>>)>>
                   /\ trace' = <<NoTrace>>
              ELSE UNCHANGED <<heap, handles, trace>>

\* The payloads a TimingElement is made of: True, False, None, 0, an empty
\* list and an event datum.
PyValues == {"True", "False", "None", "0", "[]", "w1"}

\* e = TimingElement(data)
NewTimingElement ==
  /\ heap = <<>>
  /\ \E data \in PyValues :
       /\ heap' = << [cls |-> "TimingElement", elt |-> TimingElement(data)] >>
       /\ handles' = <<Handle(1, 0, <<data>>)>>
       /\ trace' = <<NoTrace>>
       /\ last' = Call("TimingElement", 0, <<data>>, "none", FALSE)

\* bool(handles[h]) on a TimingElement; the trace keeps the answer.
TestTimingElement(h) ==
  /\ ObjOf(h).cls = "TimingElement"
  /\ trace' = [trace EXCEPT ![handles[h].obj].out = <<TimingElement__nonzero__(ObjOf(h).elt)>>]
  /\ last' = Call("TimingElement.__nonzero__", h, <<>>, "none", FALSE)
  /\ UNCHANGED <<heap, handles>>

StepTiming ==
  \/ NewTiming
  \/ CallDelayToTiming
  \/ NewTimingElement
  \/ \E h \in DOMAIN handles : IterTiming(h)
  \/ \E h \in DOMAIN handles : NextTiming(h)
  \/ \E h \in DOMAIN handles : TestTimingElement(h)

SpecTiming == Init /\ [][StepTiming]_vars

(***************************************************************************)
(* TimeControler.  Its streams are built in the call that constructs it,   *)
(* so the controler holds the only reference to each of them and they are  *)
(* kept inside its record.  order is the order in which the dictionary     *)
(* _timedict hands out its keys, which the names alone decide.             *)
(***************************************************************************)
MaxStreams == 2
MaxStreamLen == 5

\* v.next() and iter(v) for a stream v of either class.
stream_next(v) == IF v.cls = "TimeControl" THEN TimeControl_next(v) ELSE Timing_next(v)

\* stream_iter handing back the stream itself, where it stands.
stream_iter_Resume(v) == [exc |-> "none", diag |-> FALSE, val |-> v]

stream_iter(v) == IF v.cls = "TimeControl" THEN TimeControl__iter__(v) ELSE Timing__iter__(v)

RECURSIVE Pull(_, _, _, _)
\* dict((k, v.next()) for k, v in self._timedict.iteritems()), from the i-th
\* key on: a StopIteration raised by v.next() inside the generator expression
\* ends the generator, and dict() keeps the pairs it received so far; any
\* other exception leaves through dict().
Pull(td, order, i, d) ==
  IF i > Len(order) THEN [exc |-> "none", d |-> d, td |-> td]
  ELSE LET k == order[i]
           r == stream_next(td[k])
           td1 == [td EXCEPT ![k] = r.st]
       IN  IF r.exc = "none" THEN Pull(td1, order, i + 1, d @@ (k :> r.val))
           ELSE IF r.exc = "StopIteration" THEN [exc |-> "none", d |-> d, td |-> td1]
           ELSE [exc |-> r.exc, d |-> d, td |-> td1]

TimeControler__init__(kwd, order) ==
  [cls |-> "TimeControler", _timedict |-> kwd, order |-> order, numiter |-> 0]

\* TimeControler__iter__ without the reset of numiter.
TimeControler__iter__NoReset(self) ==
  [exc |-> "none",
   val |-> [self EXCEPT !._timedict = [k \in DOMAIN self._timedict |->
                                         stream_iter(self._timedict[k]).val]]]

\* __iter__ replaces every stream by iter(stream), resets numiter and
\* returns self.
TimeControler__iter__(self) ==
  [exc |-> "none",
   val |-> [self EXCEPT !._timedict = [k \in DOMAIN self._timedict |->
                                         stream_iter(self._timedict[k]).val],
                        !.numiter = 0]]

\* TimeControler_next without the test for an empty dictionary.
TimeControler_next_NoEmptyTest(self) ==
  LET p == Pull(self._timedict, self.order, 1, <<>>)
      st == [self EXCEPT !._timedict = p.td]
  IN  IF p.exc # "none" THEN Raise(p.exc, st)
      ELSE Ret(p.d, [st EXCEPT !.numiter = self.numiter + 1])

\* TimeControler_next counting the advance before it tests the dictionary.
TimeControler_next_CountsFirst(self) ==
  LET p == Pull(self._timedict, self.order, 1, <<>>)
      st == [self EXCEPT !._timedict = p.td]
  IN  IF p.exc # "none" THEN Raise(p.exc, st)
      ELSE IF DOMAIN p.d = {} THEN Raise("StopIteration", [st EXCEPT !.numiter = self.numiter + 1])
      ELSE Ret(p.d, [st EXCEPT !.numiter = self.numiter + 1])

\* TimeControler_next turning every failure of a stream into end-of-sequence.
TimeControler_next_ErrorsEnd(self) ==
  LET p == Pull(self._timedict, self.order, 1, <<>>)
      st == [self EXCEPT !._timedict = p.td]
  IN  IF p.exc # "none" THEN Raise("StopIteration", st)
      ELSE IF DOMAIN p.d = {} THEN Raise("StopIteration", st)
      ELSE Ret(p.d, [st EXCEPT !.numiter = self.numiter + 1])

TimeControler_next(self) ==
  LET p == Pull(self._timedict, self.order, 1, <<>>)
      st == [self EXCEPT !._timedict = p.td]
  IN  IF p.exc # "none" THEN Raise(p.exc, st)
      ELSE IF DOMAIN p.d = {} THEN Raise("StopIteration", st)
      ELSE Ret(p.d, [st EXCEPT !.numiter = self.numiter + 1])

\* The constructor calls that make the streams of a controler.
StreamArgs ==
  {[cls |-> "TimeControl", args |-> <<PyInt(d), PyInt(n), "None", "None", "None">>] :
     d \in 0 .. 1, n \in 0 .. MaxStreamLen}
  \cup {[cls |-> "Timing", args |-> << <<n * Resolution>>, None >>] : n \in 1 .. MaxStreamLen}

NewStream(sa) ==
  IF sa.cls = "TimeControl"
  THEN TimeControl__init__(sa.args[1], sa.args[2], sa.args[3], sa.args[4], sa.args[5])
  ELSE Timing__init__(sa.args[1], sa.args[2])

StreamNames == <<"a", "b", "c", "d">>

Orders(names) ==
  {o \in [1 .. Cardinality(names) -> names] : \A i, j \in DOMAIN o : i # j => o[i] # o[j]}

\* c = TimeControler(a=..., b=...)
NewTimeControler ==
  /\ heap = <<>>
  /\ \E n \in 0 .. MaxStreams :
       LET names == {StreamNames[i] : i \in 1 .. n}
       IN  \E sas \in [names -> StreamArgs], order \in Orders(names) :
             /\ heap' = <<TimeControler__init__([k \in names |-> NewStream(sas[k]).val], order)>>
             /\ handles' = <<Handle(1, 0, <<sas, order>>)>>
             /\ trace' = <<NoTrace>>
             /\ last' = Call("TimeControler", 0, <<sas, order>>, "none", FALSE)

\* it = iter(handles[h]) on a TimeControler: the controler itself, restarted
IterTimeControler(h) ==
  /\ ObjOf(h).cls = "TimeControler"
  /\ Len(handles) < MaxHandles
  /\ LET r == TimeControler__iter__(ObjOf(h))
     IN  /\ heap' = [heap EXCEPT ![handles[h].obj] = r.val]
         /\ handles' = Append(handles, Handle(handles[h].obj, h, handles[h].args))
         /\ trace' = [trace EXCEPT ![handles[h].obj] = NoTrace]
         /\ last' = Call("TimeControler.__iter__", h, <<>>, r.exc, FALSE)

\* handles[h].next() on a TimeControler
NextTimeControler(h) ==
  /\ ObjOf(h).cls = "TimeControler"
  /\ LET r == TimeControler_next(ObjOf(h))
     IN  /\ heap' = [heap EXCEPT ![handles[h].obj] = r.st]
         /\ trace' = [trace EXCEPT ![handles[h].obj] = Advanced(@, r)]
         /\ last' = Call("TimeControler.next", h, <<>>, r.exc, FALSE)
         /\ UNCHANGED handles

StepTimeControler ==
  \/ NewTimeControler
  \/ \E h \in DOMAIN handles : IterTimeControler(h)
  \/ \E h \in DOMAIN handles : NextTimeControler(h)

SpecTimeControler == Init /\ [][StepTimeControler]_vars

(***************************************************************************)
(* Helpers of the properties.                                              *)
(***************************************************************************)
IsPrefix(s, t) == Len(s) <= Len(t) /\ \A i \in 1 .. Len(s) : s[i] = t[i]

\* The trace tr is a run of the schedule ref, complete once ended.
Follows(hd, ref) ==
  /\ IsPrefix(hd.out, ref.out)
  /\ hd.end # "none" => hd.out = ref.out /\ hd.end = ref.end

RECURSIVE Drain(_, _)
\* Everything the stream v yields under repeated next(), and the exception
\* ending it.
Drain(v, acc) ==
  LET r == stream_next(v)
  IN  IF r.exc # "none" THEN [out |-> acc, end |-> r.exc]
      ELSE Drain(r.st, Append(acc, r.val))

\* The schedule of a TimeControl newly constructed with these arguments.
FreshSchedule(delay, steps, model, weather, start_date) ==
  Drain(TimeControl__init__(delay, steps, model, weather, start_date).val, <<>>)

TimeControls == {h \in DOMAIN handles : ObjOf(h).cls = "TimeControl"}

Config(o) == <<o.delay, o.steps, o.model, o.weather, o.start_date>>

(***************************************************************************)
(* Properties of TimeControl and simple_delay_timing.                      *)
(***************************************************************************)

\* C3: a TimeControl whose model's timing raises yields, under repeated
\* next(), the dt sequence and the end of one built with model=None and the
\* same delay and steps.
C3_RaisingModelIsFallback ==
  \A h \in TimeControls :
    LET o == ObjOf(h)
    IN  o.model = "raises" =>
          Follows(TraceOf(h), FreshSchedule(o.delay, o.steps, "None", o.weather, o.start_date))

C3_Witness ==
  \E h \in TimeControls :
    /\ ObjOf(h).model = "raises"
    /\ ObjOf(h).delay = PyInt(2)
    /\ Len(TraceOf(h).out) = 3
    /\ TraceOf(h).end = "StopIteration"

\* C4: with model=None and any delay and steps, every next() of a
\* TimeControl returns a bundle or raises StopIteration, nothing else.
C4_AdvanceReturnsOrEnds ==
  (last.op = "TimeControl.next" /\ ObjOf(last.h).model = "None")
    => last.exc \in {"none", "StopIteration"}

\* C5: without a usable model and with an invalid steps or delay (None, or
\* a delay of 0), the schedule is the default one: one bundle with dt=1,
\* then StopIteration.
InvalidFallback(o) ==
  /\ o.model \in {"None", "raises"}
  /\ \/ ~IsInt(o.steps)
     \/ ~IsInt(o.delay)
     \/ o.delay = PyInt(0)

DefaultSchedule == [out |-> << [dt |-> 1] >>, end |-> "StopIteration"]

C5_InvalidFallbackIsDefault ==
  \A h \in TimeControls :
    InvalidFallback(ObjOf(h)) => Follows(TraceOf(h), DefaultSchedule)

\* C6: constructing a TimeControl never raises, whatever delay, steps and
\* model are, and the constructed scheduler holds a step generator.
C6_ConstructionNeverRaises ==
  /\ last.op \in {"TimeControl", "TimeControl.__iter__"} =>
       last.exc = "none" /\ handles # <<>>
  /\ \A h \in TimeControls : ObjOf(h)._timing.kind \in {"genexpr", "listiter"}

C6_Witness ==
  /\ last.op = "TimeControl"
  /\ \E h \in TimeControls :
       /\ ObjOf(h).model = "raises"
       /\ ObjOf(h).steps = None
       /\ ObjOf(h).delay = PyInt(0)

\* C7: for positive delay and steps, simple_delay_timing yields exactly steps
\* bundles, bundle i (from 0) with dt = delay when i is a multiple of delay
\* and dt = 0 otherwise; delay=3, steps=9 gives 3,0,0,3,0,0,3,0,0.
Generators == {h \in DOMAIN handles : ObjOf(h).cls = "generator"}

IsMultiple(i, d) == \E k \in 0 .. i : i = k * d

C7_SimpleDelaySchedule ==
  \A h \in Generators :
    LET delay == handles[h].args[1]
        steps == handles[h].args[2]
        out == TraceOf(h).out
    IN  (IsInt(delay) /\ delay.v > 0 /\ steps.v > 0) =>
          /\ Len(out) <= steps.v
          /\ \A i \in 1 .. Len(out) :
               out[i] = [dt |-> IF IsMultiple(i - 1, delay.v) THEN delay.v ELSE 0]
          /\ TraceOf(h).end # "none" =>
               TraceOf(h).end = "StopIteration" /\ Len(out) = steps.v
          /\ (delay.v = 3 /\ steps.v = 9 /\ TraceOf(h).end # "none") =>
               [i \in 1 .. 9 |-> out[i].dt] = <<3, 0, 0, 3, 0, 0, 3, 0, 0>>

C7_Witness ==
  \E h \in Generators :
    /\ handles[h].args = <<PyInt(3), PyInt(9)>>
    /\ Len(TraceOf(h).out) = 9
    /\ TraceOf(h).end = "StopIteration"

\* C10: restarting a TimeControl after any number of next() calls returns a
\* scheduler that yields the whole schedule of a newly constructed one from
\* step 0, and delay, steps, model, weather and start_date of every scheduler
\* stay the arguments the first one was constructed with.
C10_RestartKeepsConfiguration ==
  \A h \in TimeControls :
    LET a == handles[h].args
    IN  /\ Config(ObjOf(h)) = a
        /\ handles[h].src # 0 =>
             Follows(TraceOf(h), FreshSchedule(a[1], a[2], a[3], a[4], a[5]))

C10_Witness ==
  \E h \in TimeControls :
    /\ handles[h].src # 0
    /\ TraceOf(handles[h].src).out # <<>>
    /\ Len(TraceOf(h).out) = 3
    /\ TraceOf(h).end = "StopIteration"

(***************************************************************************)
(* Properties of delay_to_timing and Timing.                               *)
(***************************************************************************)
Timings == {h \in DOMAIN handles : ObjOf(h).cls = "Timing"}

RECURSIVE SumTicks(_, _)
\* The whole ticks of the first k durations of delays.
SumTicks(delays, k) ==
  IF k = 0 THEN 0 ELSE SumTicks(delays, k - 1) + delays[k] \div Resolution

WholeTicks(delays) == \A k \in DOMAIN delays : delays[k] > 0 /\ delays[k] % Resolution = 0

\* C8: for every list of positive integer delays and no datas,
\* delay_to_timing returns a flat list whose length is the sum of the
\* durations, block k starting where the blocks before it end, its first
\* entry True and its other entries False.
C8_DelayToTimingBlocks ==
  (last.op = "delay_to_timing" /\ IsNone(last.args[2]) /\ WholeTicks(last.args[1])) =>
    /\ last.exc = "none"
    /\ LET delays == last.args[1]
           t == heap[1].value
       IN  /\ Len(t) = SumTicks(delays, Len(delays))
           /\ \A k \in DOMAIN delays : \A j \in 1 .. delays[k] \div Resolution :
                t[SumTicks(delays, k - 1) + j] = IF j = 1 THEN "True" ELSE "False"

\* The truth values of the elements a Timing returned.
Truths(out) == [i \in 1 .. Len(out) |-> TimingElement__nonzero__(out[i])]

\* C9: the iterators obtained by restarting a Timing yield identical
\* sequences of truth values, each from the first tick, the one the Timing
\* itself yields from its construction, however many ticks were consumed
\* before a restart.
C9_TimingRestartsAgree ==
  \A h1 \in Timings : \A h2 \in Timings :
    handles[h1].src # 0 =>
      LET t1 == TraceOf(h1)
          t2 == TraceOf(h2)
      IN  /\ IsPrefix(Truths(t1.out), Truths(t2.out)) \/ IsPrefix(Truths(t2.out), Truths(t1.out))
          /\ (t1.end # "none" /\ t2.end # "none") =>
               Truths(t1.out) = Truths(t2.out) /\ t1.end = t2.end

C9_Witness ==
  \E h1 \in Timings : \E h2 \in Timings :
    /\ h1 # h2
    /\ handles[h1].src # 0 /\ handles[h2].src # 0
    /\ TraceOf(1).out # <<>>
    /\ TraceOf(h1).end = "StopIteration" /\ TraceOf(h2).end = "StopIteration"
    /\ \E i \in DOMAIN TraceOf(h1).out : ~TimingElement__nonzero__(TraceOf(h1).out[i])
    /\ Len(TraceOf(h1).out) >= 3

(***************************************************************************)
(* Properties of TimeControler.                                            *)
(***************************************************************************)
TimeControlers == {h \in DOMAIN handles : ObjOf(h).cls = "TimeControler"}

Restarted(h) == \E g \in DOMAIN handles : handles[g].obj = handles[h].obj /\ handles[g].src # 0

\* The number of items pulled from a stream since it was made.
Position(v) == v._timing.i

\* C1: a TimeControler on two streams of finite lengths m and n, once
\* restarted, returns exactly min(m, n) joint steps, whatever happens after
\* them is end-of-sequence, and its k-th step maps each of the two stream
\* names to the k-th item of that stream.
C1_JointStepsOfShortest ==
  \A h \in TimeControlers :
    LET sas == handles[h].args[1]
        sched == [k \in DOMAIN sas |-> Drain(NewStream(sas[k]).val, <<>>)]
        out == TraceOf(h).out
    IN  (Restarted(h) /\ Cardinality(DOMAIN sas) = 2
           /\ \A k \in DOMAIN sas : sched[k].end = "StopIteration") =>
          /\ \A k \in DOMAIN sas : Len(out) <= Len(sched[k].out)
          /\ \A i \in DOMAIN out :
               /\ DOMAIN out[i] = DOMAIN sas
               /\ \A k \in DOMAIN sas : out[i][k] = sched[k].out[i]
          /\ TraceOf(h).end # "none" =>
               /\ TraceOf(h).end = "StopIteration"
               /\ \E k \in DOMAIN sas : Len(out) = Len(sched[k].out)

\* C2 as claimed: after any restarts and advances of a TimeControler with two
\* or more streams, an advance that found a stream exhausted included, all
\* its streams have been advanced the same number of times.
C2_StreamsNeverAhead ==
  \A h \in TimeControlers :
    LET td == ObjOf(h)._timedict
    IN  \A j \in DOMAIN td : \A k \in DOMAIN td : Position(td[j]) = Position(td[k])

\* C2 as amended: as long as no advance since the last restart has found a
\* stream exhausted or failing, all the streams of a TimeControler with two
\* or more streams have been advanced the same number of times, numiter.
C2_LockstepUntilExhaustion ==
  \A h \in TimeControlers :
    LET td == ObjOf(h)._timedict
    IN  (Cardinality(DOMAIN td) >= 2 /\ \A k \in DOMAIN td : ~td[k]._timing.done) =>
          \A k \in DOMAIN td : Position(td[k]) = ObjOf(h).numiter

C2_Witness ==
  \E h \in TimeControlers :
    LET td == ObjOf(h)._timedict
    IN  /\ Restarted(h)
        /\ Cardinality(DOMAIN td) >= 2
        /\ \A k \in DOMAIN td : ~td[k]._timing.done
        /\ ObjOf(h).numiter = 3
        /\ last.op = "TimeControler.next"

\* C11: the iterators obtained by two restarts of one Timing, TimeControl or
\* TimeControler are independent: a next() on one of them never changes the
\* object the other refers to.
C11_RestartsAreIndependent ==
  [][\A h \in DOMAIN handles : \A g \in DOMAIN handles :
       (/\ h # g
        /\ handles[h].src # 0 /\ handles[g].src # 0
        /\ last'.op \in {"Timing.next", "TimeControl.next", "TimeControler.next"}
        /\ last'.h = h)
         => heap'[handles[g].obj] = heap[handles[g].obj]]_vars

(***************************************************************************)
(* TimeControlSet.check.  A bundle is the dictionary of its instance       *)
(* attributes; hasattr also finds what the class itself defines.           *)
(***************************************************************************)
MaxChecks == 2

ClassAttributes == {"check", "__init__", "__doc__", "__module__"}

hasattr(self, attname) == attname \in DOMAIN self.dict \/ attname \in ClassAttributes

setattr(self, attname, value) ==
  [self EXCEPT !.dict = [k \in DOMAIN self.dict \cup {attname} |->
                           IF k = attname THEN value ELSE self.dict[k]]]

\* check testing the value of the attribute instead of its existence.
TimeControlSet_check_TestsValue(self, attname, defaultvalue) ==
  IF ~hasattr(self, attname) \/ (attname \in DOMAIN self.dict /\ self.dict[attname] = "None")
  THEN setattr(self, attname, defaultvalue)
  ELSE self

TimeControlSet_check(self, attname, defaultvalue) ==
  IF ~hasattr(self, attname) THEN setattr(self, attname, defaultvalue) ELSE self

AttrNames == {"dt", "rain", "check"}

FieldValues == {"None", "False", "1"}

Keywords == UNION {[names -> FieldValues] : names \in SUBSET AttrNames}

\* b = TimeControlSet(**kwd)
NewTimeControlSet ==
  /\ heap = <<>>
  /\ \E kwd \in Keywords :
       /\ heap' = << [cls |-> "TimeControlSet", dict |-> TimeControlSet(kwd)] >>
       /\ handles' = <<Handle(1, 0, <<kwd>>)>>
       /\ trace' = <<NoTrace>>
       /\ last' = Call("TimeControlSet", 0, <<kwd>>, "none", FALSE)

\* handles[h].check(attname, defaultvalue); the trace lists the calls and
\* last keeps the attributes found before the call.
CheckTimeControlSet(h) ==
  /\ ObjOf(h).cls = "TimeControlSet"
  /\ Len(TraceOf(h).out) < MaxChecks
  /\ \E attname \in AttrNames, defaultvalue \in FieldValues :
       /\ heap' = [heap EXCEPT ![handles[h].obj] =
                     TimeControlSet_check(ObjOf(h), attname, defaultvalue)]
       /\ trace' = [trace EXCEPT ![handles[h].obj].out = Append(@, <<attname, defaultvalue>>)]
       /\ last' = Call("TimeControlSet.check", h, <<attname, defaultvalue, ObjOf(h).dict>>,
                       "none", FALSE)
       /\ UNCHANGED handles

StepTimeControlSet ==
  \/ NewTimeControlSet
  \/ \E h \in DOMAIN handles : CheckTimeControlSet(h)

SpecTimeControlSet == Init /\ [][StepTimeControlSet]_vars

TimeControlSets == {h \in DOMAIN handles : ObjOf(h).cls = "TimeControlSet"}

\* C12: check(name, default) sets an absent field to default and leaves the
\* bundle as it is when the field is present, whatever its value (None and
\* False included); no other field changes, and a later check of the field
\* with another default keeps the value the first check set.
C12_CheckSetsOnlyAbsent ==
  /\ last.op = "TimeControlSet.check" =>
       LET name == last.args[1]
           old == last.args[3]
           new == ObjOf(last.h).dict
       IN  IF name \in DOMAIN old \/ name \in ClassAttributes
           THEN new = old
           ELSE /\ DOMAIN new = DOMAIN old \cup {name}
                /\ new[name] = last.args[2]
                /\ \A k \in DOMAIN old : new[k] = old[k]
  /\ \A h \in TimeControlSets :
       LET calls == TraceOf(h).out
           kwd == handles[h].args[1]
       IN  \A i \in DOMAIN calls :
             (/\ calls[i][1] \notin DOMAIN kwd \cup ClassAttributes
              /\ \A j \in 1 .. i - 1 : calls[j][1] # calls[i][1])
               => ObjOf(h).dict[calls[i][1]] = calls[i][2]

C12_Witness ==
  \E h \in TimeControlSets :
    /\ TraceOf(h).out = << <<"dt", "False">>, <<"dt", "1">> >>
    /\ handles[h].args[1] = [k \in {"rain"} |-> "None"]
    /\ ObjOf(h).dict = [k \in {"dt", "rain"} |-> IF k = "dt" THEN "False" ELSE "None"]

\* C13: a TimeControler with no stream raises StopIteration on its first and
\* on every later next(), returns no step and keeps numiter at 0.
C13_NoStreamEndsAtOnce ==
  \A h \in TimeControlers :
    DOMAIN ObjOf(h)._timedict = {} =>
      /\ TraceOf(h).out = <<>>
      /\ TraceOf(h).end \in {"none", "StopIteration"}
      /\ ObjOf(h).numiter = 0
      /\ (last.op = "TimeControler.next" /\ last.h = h) => last.exc = "StopIteration"

C13_Witness ==
  \E h \in TimeControlers :
    /\ DOMAIN ObjOf(h)._timedict = {}
    /\ last.op = "TimeControler.next"
    /\ last.h = h
    /\ Restarted(h)
    /\ TraceOf(h).end = "StopIteration"

\* C18: numiter of a TimeControler is the number of next() calls that
\* returned a joint step since the last restart, or since construction: a
\* returned step adds 1, a next() that raises adds nothing, a restart sets
\* it back to 0.
C18_NumiterCountsSteps ==
  /\ \A h \in TimeControlers : ObjOf(h).numiter = Len(TraceOf(h).out)
  /\ last.op = "TimeControler.__iter__" =>
       ObjOf(last.h).numiter = 0 /\ TraceOf(last.h) = NoTrace

C18_Witness ==
  \E h \in TimeControlers :
    /\ Restarted(h)
    /\ ObjOf(h).numiter = 2
    /\ TraceOf(h).end = "StopIteration"
    /\ last.op = "TimeControler.next"
    /\ last.exc = "StopIteration"

\* C19: once a next() of a TimeControler has raised StopIteration, every
\* later next() without a restart in between raises StopIteration too, also
\* when other streams still have items: no joint step follows the first
\* end-of-sequence.
C19_EndIsFinal ==
  [][(/\ last.op = "TimeControler.next"
      /\ last.exc = "StopIteration"
      /\ last'.op = "TimeControler.next")
       => last'.exc = "StopIteration" /\ trace' = trace]_vars

C19_Witness ==
  \E h \in TimeControlers :
    LET td == ObjOf(h)._timedict
    IN  /\ last.op = "TimeControler.next"
        /\ last.exc = "StopIteration"
        /\ TraceOf(h).out # <<>>
        /\ \E k \in DOMAIN td : ~td[k]._timing.done /\ td[k]._timing.i < td[k]._timing.n

RECURSIVE DrainControler(_, _, _)
\* The joint steps a TimeControler returns under repeated next() until it
\* raises StopIteration, and the first exception it raised on the way.
DrainControler(c, acc, first) ==
  LET r == TimeControler_next(c)
  IN  IF r.exc = "none" THEN DrainControler(r.st, Append(acc, r.val), first)
      ELSE IF r.exc = "StopIteration"
      THEN [out |-> acc, end |-> IF first = "none" THEN r.exc ELSE first]
      ELSE DrainControler(r.st, acc, IF first = "none" THEN r.exc ELSE first)

\* What the controler built from the stream constructors sas yields after its
\* first restart.
FirstRestart(sas, order) ==
  DrainControler(
    TimeControler__iter__(
      TimeControler__init__([k \in DOMAIN sas |-> NewStream(sas[k]).val], order)).val,
    <<>>, "none")

\* C20: whenever a TimeControler on TimeControl or Timing streams is
\* restarted (before any next(), in the middle, after the end, after another
\* restart), the joint steps it returns from then on are those it returned
\* after its first restart, in the same order and number.
C20_RestartRepeatsSteps ==
  \A h \in TimeControlers :
    Restarted(h) =>
      LET ref == FirstRestart(handles[h].args[1], handles[h].args[2])
          tr == TraceOf(h)
      IN  /\ IsPrefix(tr.out, ref.out)
          /\ tr.end # "none" => tr.end = ref.end
          /\ (last.op = "TimeControler.next" /\ last.exc = "StopIteration") => tr.out = ref.out

C20_Witness ==
  \E h \in TimeControlers :
    /\ Len(handles) = 3
    /\ handles[3].src # 0
    /\ \E k \in DOMAIN ObjOf(h)._timedict : ObjOf(h)._timedict[k].cls = "Timing"
    /\ \E k \in DOMAIN ObjOf(h)._timedict : ObjOf(h)._timedict[k].cls = "TimeControl"
    /\ Len(TraceOf(h).out) = 3
    /\ last.op = "TimeControler.next"
    /\ last.exc = "StopIteration"

TimingElements == {h \in DOMAIN handles : ObjOf(h).cls = "TimingElement"}

\* C16: the truth test of a TimingElement answers false exactly when its
\* payload is False; True, None, 0, an empty datum and any event datum make
\* it true.
C16_FalseOnlyForFalse ==
  \A h \in TimingElements :
    TraceOf(h).out # <<>> =>
      LET data == handles[h].args[1]
          answer == TraceOf(h).out[1]
      IN  /\ (answer = FALSE) <=> (data = "False")
          /\ data \in {"True", "None", "0", "[]", "w1"} => answer = TRUE

C16_Witness ==
  \E h \in TimingElements :
    /\ handles[h].args[1] = "None"
    /\ TraceOf(h).out = <<TRUE>>

\* C17: for delays and datas of equal length, delay_to_timing puts datas[k]
\* where the whole ticks of the blocks before block k end, provided block k
\* has at least one whole tick, and False everywhere else; a block without a
\* whole tick adds no entry, so that its payload is nowhere in the result.
C17_PayloadsAtBlockStarts ==
  (last.op = "delay_to_timing" /\ ~IsNone(last.args[2])) =>
    /\ last.exc = "none"
    /\ LET delays == last.args[1]
           datas == last.args[2].v
           t == heap[1].value
           starts == {SumTicks(delays, k - 1) + 1 : k \in {j \in DOMAIN delays : delays[j] >= Resolution}}
       IN  /\ Len(t) = SumTicks(delays, Len(delays))
           /\ \A k \in DOMAIN delays :
                delays[k] >= Resolution => t[SumTicks(delays, k - 1) + 1] = datas[k]
           /\ \A p \in DOMAIN t : p \notin starts => t[p] = "False"

(***************************************************************************)
(* time_split, rain_filter and rain_split.  A timestamp is a number of     *)
(* 1/Resolution hours; a time sequence is a regular index with a frequency *)
(* freq, and adding 1 to one of its timestamps moves it by freq.  The      *)
(* weather table has one row per timestamp of its index, with a rain       *)
(* amount; a slice of it is given by the timestamps of its rows.           *)
(***************************************************************************)
MaxTimes == 24
MaxSplitDelay == 6
MaxRainTimes == 5

DatetimeIndex(start, n, freq) == [v |-> [i \in 1 .. n |-> start + (i - 1) * freq], freq |-> freq]

\* weather_data.truncate(before, after).ix[:-1,]: the rows from before to
\* after, both included, without the last of them.
truncate_ix(weather_data, before, after) ==
  LET rows == SelectSeq(weather_data.index, LAMBDA t : before <= t /\ t <= after)
  IN  SubSeq(rows, 1, Len(rows) - 1)

\* The (duration, data) pairs of the blocks from each start to the next one,
\* the last block ending at stop; None stands for "no weather data".
events(starts, stop, weather_data) ==
  LET ends == [i \in 1 .. Len(starts) |-> IF i < Len(starts) THEN starts[i + 1] ELSE stop]
  IN  [i \in 1 .. Len(starts) |->
         <<ends[i] - starts[i],
           IF IsNone(weather_data) THEN "None"
           ELSE truncate_ix(weather_data.v, starts[i], ends[i])>>]

\* delays, data = zip(*events): ValueError when there is no event.
unzip(ev) ==
  IF ev = <<>> THEN Raise("ValueError", 0)
  ELSE Ret([delays |-> [i \in DOMAIN ev |-> ev[i][1]], data |-> [i \in DOMAIN ev |-> ev[i][2]]], 0)

\* time_split closing the last block at the final timestamp itself.
time_split_NoLastHour(time_sequence, weather_data, delay) ==
  LET ts == time_sequence.v
  IN  IF ts = <<>> THEN Raise("IndexError", 0)
      ELSE IF delay = 0 THEN Raise("ZeroDivisionError", 0)
      ELSE LET starts == SelectSeq(ts, LAMBDA t : (t - ts[1]) % (delay * Resolution) = 0)
           IN  unzip(events(starts, ts[Len(ts)], weather_data))

time_split(time_sequence, weather_data, delay) ==
  LET ts == time_sequence.v
  IN  IF ts = <<>> THEN Raise("IndexError", 0)
      ELSE IF delay = 0 THEN Raise("ZeroDivisionError", 0)
      ELSE LET starts == SelectSeq(ts, LAMBDA t : (t - ts[1]) % (delay * Resolution) = 0)
           IN  unzip(events(starts, ts[Len(ts)] + time_sequence.freq, weather_data))

\* weather_data.rain[time_sequence] with rain[rain > 0] = 1
binarized_rain(time_sequence, weather_data) ==
  [i \in DOMAIN time_sequence.v |-> IF weather_data.rain[i] > 0 THEN 1 ELSE weather_data.rain[i]]

\* rain_filter comparing the rain amounts as they are.
rain_filter_NotBinarized(time_sequence, weather_data) ==
  LET ts == time_sequence.v
      rain == weather_data.rain
      keep == {i \in DOMAIN ts : i = 1 \/ rain[i] # rain[i - 1]}
  IN  IF ts = <<>> THEN Raise("IndexError", 0)
      ELSE Ret(SelectSeq(ts, LAMBDA t : \E i \in keep : ts[i] = t), 0)

\* The first timestamp and every timestamp whose binarized rain differs from
\* that of the timestamp before it.
rain_filter(time_sequence, weather_data) ==
  LET ts == time_sequence.v
      rain == binarized_rain(time_sequence, weather_data)
      keep == {i \in DOMAIN ts : i = 1 \/ rain[i] # rain[i - 1]}
  IN  IF ts = <<>> THEN Raise("IndexError", 0)
      ELSE Ret(SelectSeq(ts, LAMBDA t : \E i \in keep : ts[i] = t), 0)

rain_split(time_sequence, weather_data) ==
  LET f == rain_filter(time_sequence, weather_data)
      ts == time_sequence.v
  IN  IF f.exc # "none" THEN Raise(f.exc, 0)
      ELSE unzip(events(f.val, ts[Len(ts)] + time_sequence.freq, PyList(weather_data)))

Frequencies == {1, Resolution}

StartTimes == {0, Resolution + 1}

\* The weather table of a time sequence: a row for each of its timestamps
\* and, when more is TRUE, a row one step after the last.
WeatherTable(time_sequence, rain, more) ==
  LET ts == time_sequence.v
  IN  [index |-> IF more /\ ts # <<>> THEN Append(ts, ts[Len(ts)] + time_sequence.freq) ELSE ts,
       rain |-> IF more /\ ts # <<>> THEN Append(rain, 0) ELSE rain]

RainAmounts == {0, 1, 2}

\* delays, data = time_split(time_sequence, weather_data, delay)
CallTimeSplit ==
  /\ heap = <<>>
  /\ last = NoCall
  /\ \E n \in 0 .. MaxTimes, start \in StartTimes, freq \in Frequencies,
        delay \in 0 .. MaxSplitDelay, w \in {"None", "rows", "more"} :
       LET ts == DatetimeIndex(start, n, freq)
           weather == IF w = "None" THEN None
                      ELSE PyList(WeatherTable(ts, [i \in 1 .. n |-> 0], w = "more"))
           r == time_split(ts, weather, delay)
       IN  /\ last' = Call("time_split", 0, <<ts, weather, delay>>, r.exc, FALSE)
           /\ IF r.exc = "none"
              THEN /\ heap' = << [cls |-> "tuple", delays |-> r.val.delays, data |-> r.val.data] >>
                   /\ handles' = <<Handle(1, 0, <<ts, weather, delay>>)>>
                   /\ trace' = <<NoTrace>>
              ELSE UNCHANGED <<heap, handles, trace>>

\* delays, data = rain_split(time_sequence, weather_data)
CallRainSplit ==
  /\ heap = <<>>
  /\ last = NoCall
  /\ \E n \in 0 .. MaxRainTimes, start \in StartTimes, freq \in Frequencies, more \in BOOLEAN :
       \E rain \in [1 .. n -> RainAmounts] :
         LET ts == DatetimeIndex(start, n, freq)
             weather == WeatherTable(ts, rain, more)
             r == rain_split(ts, weather)
         IN  /\ last' = Call("rain_split", 0, <<ts, weather>>, r.exc, FALSE)
             /\ IF r.exc = "none"
                THEN /\ heap' = << [cls |-> "tuple", delays |-> r.val.delays, data |-> r.val.data] >>
                     /\ handles' = <<Handle(1, 0, <<ts, weather>>)>>
                     /\ trace' = <<NoTrace>>
                ELSE UNCHANGED <<heap, handles, trace>>

StepSplit ==
  \/ CallTimeSplit
  \/ CallRainSplit

SpecSplit == Init /\ [][StepSplit]_vars

RECURSIVE SumSeq(_, _)
\* The sum of the first k entries of s.
SumSeq(s, k) == IF k = 0 THEN 0 ELSE SumSeq(s, k - 1) + s[k]

Hours(n) == n * Resolution

\* C14: for n >= 1 consecutive hourly timestamps and an integer delay
\* d >= 1, time_split without weather data returns blocks starting at the
\* offsets 0, d, 2d, ...: every block but the last lasts d hours, the last one
\* ends one hour after the final timestamp, the durations add up to n hours
\* and every payload is None; n = 24 and d = 6 give 4 blocks of 6 hours.
C14_TimeSplitBlocks ==
  (/\ last.op = "time_split"
   /\ Len(last.args[1].v) >= 1
   /\ last.args[1].freq = Resolution
   /\ IsNone(last.args[2])
   /\ last.args[3] >= 1) =>
    /\ last.exc = "none"
    /\ LET n == Len(last.args[1].v)
           d == last.args[3]
           delays == heap[1].delays
           count == Len(delays)
       IN  /\ count >= 1
           /\ (count - 1) * d < n /\ n <= count * d
           /\ \A i \in 1 .. count - 1 : delays[i] = Hours(d)
           /\ delays[count] = Hours(n - (count - 1) * d)
           /\ SumSeq(delays, count) = Hours(n)
           /\ heap[1].data = [i \in 1 .. count |-> "None"]
           /\ (n = 24 /\ d = 6) => delays = <<Hours(6), Hours(6), Hours(6), Hours(6)>>

C14_Witness ==
  /\ last.op = "time_split"
  /\ last.exc = "none"
  /\ Len(last.args[1].v) = 24
  /\ last.args[1].freq = Resolution
  /\ IsNone(last.args[2])
  /\ last.args[3] = 6
  /\ Len(heap[1].delays) = 4

\* C15: for n >= 1 ordered hourly timestamps with a rain amount each,
\* rain_split returns one block for each maximal run of timestamps that are
\* all rainy (amount > 0) or all dry, in order: a block lasts as many hours
\* as its run has timestamps, and the durations add up to the n hours of the
\* sequence; the amounts 0,0,1,1,0 give three blocks, of 2, 2 and 1 hours.
C15_RainSplitRuns ==
  (/\ last.op = "rain_split"
   /\ Len(last.args[1].v) >= 1
   /\ last.args[1].freq = Resolution) =>
    /\ last.exc = "none"
    /\ LET n == Len(last.args[1].v)
           rain == last.args[2].rain
           wet == [i \in 1 .. n |-> rain[i] > 0]
           delays == heap[1].delays
           count == Len(delays)
           first(k) == SumSeq(delays, k - 1) \div Resolution + 1
           final(k) == SumSeq(delays, k) \div Resolution
       IN  /\ count >= 1
           /\ \A k \in 1 .. count : delays[k] >= Resolution /\ delays[k] % Resolution = 0
           /\ SumSeq(delays, count) = Hours(n)
           /\ \A k \in 1 .. count : \A i \in first(k) .. final(k) : wet[i] = wet[first(k)]
           /\ \A k \in 1 .. count - 1 : wet[final(k)] # wet[first(k + 1)]
           /\ (n = 5 /\ [i \in 1 .. n |-> rain[i]] = <<0, 0, 1, 1, 0>>) =>
                delays = <<Hours(2), Hours(2), Hours(1)>>

C15_Witness ==
  /\ last.op = "rain_split"
  /\ last.exc = "none"
  /\ last.args[1].freq = Resolution
  /\ last.args[2].rain \in {<<0, 0, 1, 1, 0>>, <<0, 0, 1, 1, 0, 0>>}
  /\ heap[1].delays = <<Hours(2), Hours(2), Hours(1)>>

====
